---- MODULE Spec2Model ----
(***************************************************************************)
(* labmachine: the jupctl command line (src/labmachine/cli.py) driving the *)
(* Lab Lifecycle Controller, the State Store and the provider drivers.     *)
(*                                                                         *)
(* The command handlers are translated from cli.py.  The controller        *)
(* (labmachine.jupyter: JupyterController, push_state, fetch_state,        *)
(* clean_state) and the provider drivers are modelled from the             *)
(* specification's contracts (sections 3, 4.2, 4.3, 6.2).                  *)
(*                                                                         *)
(* A command runs as a short process of one operator:                      *)
(*   idle/done --load--> loaded --controller call--> called                *)
(*             --push or not--> done (or polling, for `up --wait`)         *)
(* `init` and `clean` touch the store once and are single steps.           *)
(* The `--from-module` branch of `up` (shortcuts.lab_from_module) uses     *)
(* neither the controller nor the store of this model and is left out.     *)
(*                                                                         *)
(* The storage errors of src/labmachine/errors.py are constructed by a     *)
(* caller in a specification of their own (SpecErrors).                    *)
(***************************************************************************)
EXTENDS Integers, Sequences, FiniteSets, TLC

\* ---------------------------------------------------------------- bounds
MaxInst == 2        \* provider instance identifiers are 1..MaxInst
MaxVersion == 3     \* commands start only while version < MaxVersion

Ops == {1, 2}       \* operators, each with its own pointer file
InstIds == 1..MaxInst

\* --------------------------------------------------------- option values
NoName == ""                      \* --volume not given (default None)
VolNames == {"v1"}                \* values of --name / --volume
Sizes == {10, 20}                 \* values of --size ("10" is the default)
StateLocator == "state.json"      \* init's default for --state
NoLocator == "none"               \* no locator: no pointer file, no --state
DnsIds == {"zone-1"}              \* values of the required --dns-id
HttpCodes == {200, 503}           \* status codes the lab URL may answer
TimeoutDefault == 20              \* --timeout's default, in minutes
Timeouts == {TimeoutDefault, 5}   \* values of --timeout

\* ------------------------------------------------- Lab State Descriptor
NoInstance == [present |-> FALSE, id |-> 0, status |-> "none"]
LabInstance(i, s) == [present |-> TRUE, id |-> i, status |-> s]

NoVolume == [tracked |-> FALSE, size |-> 0, status |-> "none"]
VolumeRecord(sz, st) == [tracked |-> TRUE, size |-> sz, status |-> st]

NoVolumes == [n \in VolNames |-> NoVolume]

\* the descriptor a successful Init creates (version 0, no instance, no volumes)
JupyterState(project, compute_provider, dns_provider, location, dns_id) ==
  [exists |-> TRUE, version |-> 0,
   project |-> project, compute_provider |-> compute_provider,
   dns_provider |-> dns_provider, location |-> location, dns_id |-> dns_id,
   instance |-> NoInstance, volumes |-> NoVolumes]

\* no descriptor (nothing at the locator / nothing loaded)
NoState ==
  [exists |-> FALSE, version |-> 0,
   project |-> "", compute_provider |-> "", dns_provider |-> "",
   location |-> "", dns_id |-> "",
   instance |-> NoInstance, volumes |-> NoVolumes]

NoArgs == [name |-> NoName, size |-> 0, wait |-> FALSE, timeout |-> 0]

VARIABLES
  store,          \* State Store: the durable descriptor at StateLocator
  conf,           \* conf[o]: content of operator o's pointer file (JUPCTL_CONF)
  provInstances,  \* Compute Driver: identifiers of the instances that exist
  provRecord,     \* DNS Driver: the instance the lab's record points at, or 0
  provVolumes,    \* Compute Driver: provider volumes by name
  pc,             \* pc[o]: position of operator o's command
  cmd,            \* cmd[o]: the command o runs / ran last
  args,           \* args[o]: its options
  mem,            \* mem[o]: the controller's in-memory descriptor (jup._state)
  res,            \* res[o]: what the controller operation returned or raised
  trace,          \* trace[o]: controller/provider/store calls of the command
  before,         \* before[o]: the durable descriptor when the command started
  beaten          \* beaten[o]: a rival loaded at the same base pushed first

vars == <<store, conf, provInstances, provRecord, provVolumes,
          pc, cmd, args, mem, res, trace, before, beaten>>

provider == <<provInstances, provRecord, provVolumes>>

Init ==
  /\ store = NoState
  /\ conf = [o \in Ops |-> NoLocator]
  /\ provInstances = {}
  /\ provRecord = 0
  /\ provVolumes = NoVolumes
  /\ pc = [o \in Ops |-> "idle"]
  /\ cmd = [o \in Ops |-> "none"]
  /\ args = [o \in Ops |-> NoArgs]
  /\ mem = [o \in Ops |-> NoState]
  /\ res = [o \in Ops |-> "none"]
  /\ trace = [o \in Ops |-> <<>>]
  /\ before = [o \in Ops |-> NoState]
  /\ beaten = [o \in Ops |-> FALSE]

\* ------------------------------------------------------ process skeleton
Idle(o) == pc[o] \in {"idle", "done"}

Raised(r) == r \notin {"none", "ok", "false"}

\* f with f[o] = v; under sequential use the other operators' bookkeeping of
\* their finished commands is dropped (their processes have exited)
Upd(f, o, v, excl, blank) ==
  [p \in Ops |-> IF p = o THEN v ELSE IF excl THEN blank ELSE f[p]]

\* a command may start: under sequential use (excl) when nobody runs one; in
\* a race each operator runs one command
CanStart(o, excl) ==
  IF excl THEN \A p \in Ops : Idle(p) ELSE pc[o] = "idle"

\* commands that may push start only below the version bound
BelowBound == store.exists => store.version < MaxVersion

\* the bookkeeping of a command of o that starts as c with options a, stands
\* at position p with descriptor d in memory, result r and calls t
Enter(o, excl, c, a, p, d, r, t) ==
  /\ pc' = Upd(pc, o, p, excl, "idle")
  /\ cmd' = Upd(cmd, o, c, excl, "none")
  /\ args' = Upd(args, o, a, excl, NoArgs)
  /\ mem' = Upd(mem, o, d, excl, NoState)
  /\ res' = Upd(res, o, r, excl, "none")
  /\ trace' = Upd(trace, o, t, excl, <<>>)
  /\ before' = Upd(before, o, store, excl, NoState)
  /\ beaten' = Upd(beaten, o, FALSE, excl, FALSE)

\* _state = state if state else load_state()
load_state(o, state) == IF state # NoLocator THEN state ELSE conf[o]

\* JupyterController.from_state(_state), as the first lines of a handler:
\* StateNotFound when nothing is resolvable, else the durable descriptor is
\* loaded into memory (PullFetchState)
from_state(o, excl, c, a) ==
  /\ CanStart(o, excl)
  /\ BelowBound
  /\ \E loc \in {load_state(o, state) : state \in {NoLocator, StateLocator}} :
       IF loc = NoLocator
       THEN Enter(o, excl, c, NoArgs, "done", NoState, "NoPointerFile", <<>>)
       ELSE IF ~store.exists
       THEN Enter(o, excl, c, NoArgs, "done", NoState, "StateNotFound", <<>>)
       ELSE Enter(o, excl, c, a, "loaded", store, "none", <<>>)
  /\ UNCHANGED <<store, conf, provider>>

\* a controller operation of o ends: descriptor d in memory, result r,
\* provider calls made
Return(o, d, r, calls) ==
  /\ pc' = [pc EXCEPT ![o] = "called"]
  /\ mem' = [mem EXCEPT ![o] = d]
  /\ res' = [res EXCEPT ![o] = r]
  /\ trace' = [trace EXCEPT ![o] = @ \o calls]
  /\ UNCHANGED <<store, conf, cmd, args, before, beaten>>

\* the handler ends without pushing (an exception propagated, or a branch
\* without push)
Quit(o) ==
  /\ pc' = [pc EXCEPT ![o] = "done"]
  /\ UNCHANGED <<store, conf, provider, cmd, args, mem, res, trace, before,
                 beaten>>

\* ----------------------------------------------------------- State Store
\* (variant: the volume table is not serialized)
Pushed_without_volumes(d) ==
  [d EXCEPT !.version = d.version + 1, !.volumes = NoVolumes]

\* the durable descriptor after a successful Push of d
Pushed(d) == [d EXCEPT !.version = d.version + 1]

\* (variant: no version check)
PushAccepted_unchecked(d) == store.exists

\* Push is accepted iff d derives from the store's current version
PushAccepted(d) == store.exists /\ d.version = store.version

\* (variant: a stale push is reported but written all the same)
jup_push_last_wins(o, next) ==
  /\ store' = Pushed(mem[o])
  /\ IF PushAccepted(mem[o])
     THEN /\ trace' = [trace EXCEPT ![o] = Append(@, "PushOk")]
          /\ pc' = [pc EXCEPT ![o] = next]
     ELSE /\ trace' = [trace EXCEPT ![o] = Append(@, "StaleWrite")]
          /\ pc' = [pc EXCEPT ![o] = "done"]
  /\ UNCHANGED <<conf, provider, cmd, args, mem, res, before, beaten>>

\* jup.push(): on acceptance the store takes the descriptor with the version
\* bumped and the handler goes on to position next; else StaleWrite is raised
\* and the handler ends
jup_push(o, next) ==
  /\ IF PushAccepted(mem[o])
     THEN /\ store' = Pushed(mem[o])
          /\ trace' = [trace EXCEPT ![o] = Append(@, "PushOk")]
          /\ pc' = [pc EXCEPT ![o] = next]
          /\ beaten' = [p \in Ops |->
                IF p # o /\ pc[p] \in {"loaded", "called"}
                        /\ mem[p].version = mem[o].version
                THEN TRUE ELSE beaten[p]]
     ELSE /\ store' = store
          /\ trace' = [trace EXCEPT ![o] = Append(@, "StaleWrite")]
          /\ pc' = [pc EXCEPT ![o] = "done"]
          /\ beaten' = beaten
  /\ UNCHANGED <<conf, provider, cmd, args, mem, res, before>>


\* ----------------------------------------- Lab Lifecycle Controller: lab
Min(S) == CHOOSE x \in S : \A y \in S : x <= y

\* (variant: the status is not looked at)
jup_check_volume_any_status(d, name) == d.volumes[name].tracked

\* CheckVolume(name): the volume map contains name with status not deleting
jup_check_volume(d, name) ==
  d.volumes[name].tracked /\ d.volumes[name].status # "deleting"

\* the timeoutMinutes CreateLab bounds its wait with when its caller gives
\* none
create_lab_timeout == 20

\* CreateLab: precondition, volume validation, instance, DNS record, then
\* `instance` is populated.  It does not persist.
jup_create_lab(o, volume) ==
  LET d == mem[o]
      free == InstIds \ provInstances
  IN
  IF d.instance.present
  THEN Return(o, d, "AlreadyProvisioned", <<>>) /\ UNCHANGED provider
  ELSE IF volume # NoName /\ ~jup_check_volume(d, volume)
  THEN Return(o, d, "NotFound", <<>>) /\ UNCHANGED provider
  ELSE
    \/ \* createInstance fails, or times out with nothing created
       /\ \E r \in {"ProviderError", "ProvisionTimeout"} :
            Return(o, d, r, <<"createInstance">>)
       /\ UNCHANGED provider
    \/ \* the timeout passes with the creation in flight
       /\ free # {}
       /\ provInstances' = provInstances \cup {Min(free)}
       /\ Return(o, [d EXCEPT !.instance = LabInstance(Min(free), "pending")],
                 "ProvisionTimeout", <<"createInstance">>)
       /\ UNCHANGED <<provRecord, provVolumes>>
    \/ \* instance created, createRecord fails
       /\ free # {}
       /\ provInstances' = provInstances \cup {Min(free)}
       /\ Return(o, [d EXCEPT !.instance = LabInstance(Min(free), "partial")],
                 "ProviderError", <<"createInstance", "createRecord">>)
       /\ UNCHANGED <<provRecord, provVolumes>>
    \/ \* instance and record created
       /\ free # {}
       /\ provInstances' = provInstances \cup {Min(free)}
       /\ provRecord' = Min(free)
       /\ Return(o, [d EXCEPT !.instance = LabInstance(Min(free), "running")],
                 "ok", <<"createInstance", "createRecord">>)
       /\ UNCHANGED provVolumes

\* the descriptor after reconciliation against the provider: fields are
\* overwritten from what the provider reports, cleared when it reports
\* "not found"
Reconciled(d) ==
  [d EXCEPT
     !.instance = IF d.instance.present /\ d.instance.id \in provInstances
                  THEN LabInstance(d.instance.id, "running")
                  ELSE NoInstance,
     !.volumes = [n \in VolNames |->
                  IF d.volumes[n].tracked THEN provVolumes[n] ELSE NoVolume]]

\* what the Compute Driver reports about the descriptor's instance
InstanceReport(d) ==
  IF ~d.instance.present THEN <<>>
  ELSE IF d.instance.id \in provInstances THEN <<"instanceFound">>
  ELSE <<"instanceNotFound">>

\* Fetch (drift reconciliation): a driver error is surfaced; a report,
\* "not found" included, is reconciled into the descriptor
jup_fetch(o) ==
  /\ \/ Return(o, mem[o], "ProviderError", <<"fetch", "providerError">>)
     \/ Return(o, Reconciled(mem[o]), "ok",
               <<"fetch">> \o InstanceReport(mem[o]))
  /\ UNCHANGED provider

\* DestroyLab: DNS record first, then the instance, then `instance` cleared
jup_destroy_lab(o) ==
  LET d == mem[o]
      i == d.instance.id
  IN
  IF ~d.instance.present
  THEN Return(o, d, "ok", <<>>) /\ UNCHANGED provider
  ELSE
    \/ \* deleteRecord fails: the instance deletion is not attempted
       /\ Return(o, d, "PartialDestroy", <<"deleteRecord">>)
       /\ UNCHANGED provider
    \/ \* record deleted, deleteInstance fails
       /\ provRecord' = 0
       /\ Return(o, d, "ProviderError", <<"deleteRecord", "deleteInstance">>)
       /\ UNCHANGED <<provInstances, provVolumes>>
    \/ \* both deleted
       /\ provRecord' = 0
       /\ provInstances' = provInstances \ {i}
       /\ Return(o, [d EXCEPT !.instance = NoInstance], "ok",
                 <<"deleteRecord", "deleteInstance">>)
       /\ UNCHANGED provVolumes

\* ------------------------------------- Lab Lifecycle Controller: volumes
jup_create_volume(o, name, size) ==
  LET d == mem[o] IN
  IF d.volumes[name].tracked
  THEN Return(o, d, "AlreadyExists", <<>>) /\ UNCHANGED provider
  ELSE
    \/ \* createVolume fails (always so when the provider has the name)
       /\ Return(o, d, "ProviderError", <<"createVolume">>)
       /\ UNCHANGED provider
    \/ /\ ~provVolumes[name].tracked
       /\ provVolumes' = [provVolumes EXCEPT
                            ![name] = VolumeRecord(size, "available")]
       /\ Return(o, [d EXCEPT !.volumes[name] = VolumeRecord(size, "available")],
                 "ok", <<"createVolume">>)
       /\ UNCHANGED <<provInstances, provRecord>>

jup_import_volume(o, name) ==
  LET d == mem[o] IN
  /\ IF provVolumes[name].tracked
     THEN Return(o, [d EXCEPT !.volumes[name] =
                       VolumeRecord(provVolumes[name].size, "available")],
                 "ok", <<"findVolume">>)
     ELSE Return(o, d, "NotFoundAtProvider", <<"findVolume">>)
  /\ UNCHANGED provider

jup_resize_volume(o, name, size) ==
  LET d == mem[o] IN
  IF ~d.volumes[name].tracked
  THEN Return(o, d, "NotFound", <<>>) /\ UNCHANGED provider
  ELSE
    \/ \* the provider rejects the resize
       /\ Return(o, d, "false", <<"resizeVolume">>)
       /\ UNCHANGED provider
    \/ \* the provider accepts (it never shrinks a volume)
       /\ provVolumes[name].tracked
       /\ size > provVolumes[name].size
       /\ provVolumes' = [provVolumes EXCEPT ![name].size = size]
       /\ Return(o, [d EXCEPT !.volumes[name].size = size], "ok",
                 <<"resizeVolume">>)
       /\ UNCHANGED <<provInstances, provRecord>>

jup_destroy_volume(o, name) ==
  LET d == mem[o] IN
  IF ~d.volumes[name].tracked
  THEN Return(o, d, "NotFound", <<>>) /\ UNCHANGED provider
  ELSE
    \/ \* the provider destroy fails
       /\ Return(o, d, "false", <<"deleteVolume">>)
       /\ UNCHANGED provider
    \/ /\ provVolumes[name].tracked
       /\ provVolumes' = [provVolumes EXCEPT ![name] = NoVolume]
       /\ Return(o, [d EXCEPT !.volumes[name] = NoVolume], "ok",
                 <<"deleteVolume">>)
       /\ UNCHANGED <<provInstances, provRecord>>

\* ------------------------------------------------- cli.py: init and clean
\* JupyterController.init: the idempotent-create guard.  When a descriptor
\* exists it returns the sentinel and changes nothing; else it creates the
\* descriptor.  Yields the durable descriptor after the call.
JupyterController_init(project, compute_provider, dns_provider, location, dns_id) ==
  IF store.exists
  THEN store
  ELSE JupyterState(project, compute_provider, dns_provider, location, dns_id)

\* (variant: the pointer file is written whatever Init returned)
init_saves_always(o, excl) ==
  /\ CanStart(o, excl)
  /\ \E dns_id \in DnsIds :
       IF conf[o] # NoLocator
       THEN \* a pointer file already exists: Init is not called
            /\ Enter(o, excl, "init", NoArgs, "done", NoState,
                     "PointerExists", <<>>)
            /\ UNCHANGED <<store, conf>>
       ELSE IF store.exists
       THEN \* `if not jup`: the sentinel, nothing is saved
            /\ store' = JupyterController_init("default", "gce", "gce", "",
                                               dns_id)
            /\ Enter(o, excl, "init", NoArgs, "done", NoState,
                     "AlreadyExists", <<"Init">>)
            /\ conf' = [conf EXCEPT ![o] = StateLocator]
       ELSE /\ store' = JupyterController_init("default", "gce", "gce", "",
                                               dns_id)
            /\ conf' = [conf EXCEPT ![o] = StateLocator]
            /\ Enter(o, excl, "init", NoArgs, "done", NoState,
                     "ok", <<"Init", "save_state">>)
  /\ UNCHANGED provider

\* the init command (its option defaults; --dns-id is required)
init(o, excl) ==
  /\ CanStart(o, excl)
  /\ \E dns_id \in DnsIds :
       IF conf[o] # NoLocator
       THEN \* a pointer file already exists: Init is not called
            /\ Enter(o, excl, "init", NoArgs, "done", NoState,
                     "PointerExists", <<>>)
            /\ UNCHANGED <<store, conf>>
       ELSE IF store.exists
       THEN \* `if not jup`: the sentinel, nothing is saved
            /\ store' = JupyterController_init("default", "gce", "gce", "",
                                               dns_id)
            /\ Enter(o, excl, "init", NoArgs, "done", NoState,
                     "AlreadyExists", <<"Init">>)
            /\ UNCHANGED conf
       ELSE /\ store' = JupyterController_init("default", "gce", "gce", "",
                                               dns_id)
            /\ conf' = [conf EXCEPT ![o] = StateLocator]
            /\ Enter(o, excl, "init", NoArgs, "done", NoState,
                     "ok", <<"Init", "save_state">>)
  /\ UNCHANGED provider

\* (variant: the pointer file is unlinked before clean_state is called)
clean_state_cmd_unlink_first(o, excl) ==
  /\ CanStart(o, excl)
  /\ \E loc \in {load_state(o, state) : state \in {NoLocator, StateLocator}},
        confirm \in BOOLEAN, fails \in BOOLEAN :
       IF loc = NoLocator
       THEN /\ Enter(o, excl, "clean", NoArgs, "done", NoState,
                     "NoPointerFile", <<>>)
            /\ UNCHANGED <<store, conf>>
       ELSE IF ~confirm
       THEN /\ Enter(o, excl, "clean", NoArgs, "done", NoState,
                     "declined", <<>>)
            /\ UNCHANGED <<store, conf>>
       ELSE IF fails
       THEN /\ Enter(o, excl, "clean", NoArgs, "done", NoState,
                     "ProviderError", <<"unlink", "clean_state">>)
            /\ conf' = [conf EXCEPT ![o] = NoLocator]
            /\ UNCHANGED store
       ELSE IF conf[o] = NoLocator
       THEN /\ store' = NoState
            /\ Enter(o, excl, "clean", NoArgs, "done", NoState,
                     "FileNotFoundError", <<"clean_state", "unlink">>)
            /\ UNCHANGED conf
       ELSE /\ store' = NoState
            /\ conf' = [conf EXCEPT ![o] = NoLocator]
            /\ Enter(o, excl, "clean", NoArgs, "done", NoState,
                     "ok", <<"clean_state", "unlink">>)
  /\ UNCHANGED provider

\* the clean command: confirmation, clean_state, then the pointer file is
\* unlinked.  clean_state on a missing descriptor either raises or does
\* nothing; Path.unlink raises when there is no pointer file.
clean_state_cmd(o, excl) ==
  /\ CanStart(o, excl)
  /\ \E loc \in {load_state(o, state) : state \in {NoLocator, StateLocator}},
        confirm \in BOOLEAN, fails \in BOOLEAN :
       IF loc = NoLocator
       THEN /\ Enter(o, excl, "clean", NoArgs, "done", NoState,
                     "NoPointerFile", <<>>)
            /\ UNCHANGED <<store, conf>>
       ELSE IF ~confirm
       THEN /\ Enter(o, excl, "clean", NoArgs, "done", NoState,
                     "declined", <<>>)
            /\ UNCHANGED <<store, conf>>
       ELSE IF fails
       THEN /\ Enter(o, excl, "clean", NoArgs, "done", NoState,
                     "ProviderError", <<"clean_state">>)
            /\ UNCHANGED <<store, conf>>
       ELSE IF conf[o] = NoLocator
       THEN /\ store' = NoState
            /\ Enter(o, excl, "clean", NoArgs, "done", NoState,
                     "FileNotFoundError", <<"clean_state", "unlink">>)
            /\ UNCHANGED conf
       ELSE /\ store' = NoState
            /\ conf' = [conf EXCEPT ![o] = NoLocator]
            /\ Enter(o, excl, "clean", NoArgs, "done", NoState,
                     "ok", <<"clean_state", "unlink">>)
  /\ UNCHANGED provider

\* ------------------------------------------------------------ cli.py: up
At(o, p, c) == pc[o] = p /\ cmd[o] = c

jupyter_up_load(o, excl) ==
  \E volume \in VolNames \cup {NoName}, wait \in BOOLEAN, timeout \in Timeouts :
    from_state(o, excl, "up",
               [name |-> volume, size |-> 0, wait |-> wait, timeout |-> timeout])

\* jup.create_lab(container=..., boot_image=..., instance_type=...,
\* volume_data=..., network=..., tags=..., debug=...): `timeout` is not among
\* the keywords, so create_lab waits with its own value
jupyter_up_timeout(timeout) == create_lab_timeout

\* (variant: the volume is not handed to create_lab)
jupyter_up_create_unnamed(o) ==
  /\ At(o, "loaded", "up")
  /\ jup_create_lab(o, NoName)

\* a missing volume only prints a warning; create_lab is called regardless
jupyter_up_create(o) ==
  /\ At(o, "loaded", "up")
  /\ jup_create_lab(o, args[o].name)

\* (variant: the push is made even when create_lab raised)
jupyter_up_push_always(o) ==
  /\ At(o, "called", "up")
  /\ jup_push(o, IF args[o].wait THEN "polling" ELSE "done")

\* jup.push() follows create_lab inside the same block: an exception of
\* create_lab skips it
jupyter_up_push(o) ==
  /\ At(o, "called", "up")
  /\ IF Raised(res[o])
     THEN Quit(o)
     ELSE jup_push(o, IF args[o].wait THEN "polling" ELSE "done")

\* while code != 200: requests.get(url); sleep.  A response other than 200
\* keeps the loop going; requests.get raises when no connection can be made,
\* which ends the handler before the report.
jupyter_up_wait(o) ==
  /\ At(o, "polling", "up")
  /\ \/ \E code \in HttpCodes :
          IF code = 200
          THEN /\ pc' = [pc EXCEPT ![o] = "done"]
               /\ trace' = [trace EXCEPT ![o] = Append(@, "http200")]
          ELSE UNCHANGED <<pc, trace>>
     \/ /\ pc' = [pc EXCEPT ![o] = "done"]
        /\ trace' = [trace EXCEPT ![o] = Append(@, "ConnectionError")]
  /\ UNCHANGED <<store, conf, provider, cmd, args, mem, res, before, beaten>>

jupyter_up(o, excl) ==
  \/ jupyter_up_load(o, excl)
  \/ jupyter_up_create(o)
  \/ jupyter_up_push(o)
  \/ jupyter_up_wait(o)

\* ------------------------------------------------ cli.py: fetch, destroy
fetch_load(o, excl) == from_state(o, excl, "fetch", NoArgs)

fetch_call(o) == At(o, "loaded", "fetch") /\ jup_fetch(o)

\* (variant: the reconciled descriptor is only printed)
fetch_push_never(o) ==
  /\ At(o, "called", "fetch")
  /\ Quit(o)

fetch_push(o) ==
  /\ At(o, "called", "fetch")
  /\ IF Raised(res[o]) THEN Quit(o) ELSE jup_push(o, "done")

fetch(o, excl) == fetch_load(o, excl) \/ fetch_call(o) \/ fetch_push(o)

destroy_load(o, excl) == from_state(o, excl, "destroy", NoArgs)

destroy_call(o) == At(o, "loaded", "destroy") /\ jup_destroy_lab(o)

\* (variant: the push is made even when destroy_lab raised)
destroy_push_always(o) ==
  /\ At(o, "called", "destroy")
  /\ jup_push(o, "done")

destroy_push(o) ==
  /\ At(o, "called", "destroy")
  /\ IF Raised(res[o]) THEN Quit(o) ELSE jup_push(o, "done")

destroy(o, excl) == destroy_load(o, excl) \/ destroy_call(o) \/ destroy_push(o)

\* ------------------------------------------------------- cli.py: volumes
volume_create_load(o, excl) ==
  \E name \in VolNames, size \in Sizes :
    from_state(o, excl, "volume_create",
               [name |-> name, size |-> size, wait |-> FALSE, timeout |-> 0])

\* (variant: create_volume is called without looking at check_volume)
volume_create_call_unguarded(o) ==
  /\ At(o, "loaded", "volume_create")
  /\ jup_create_volume(o, args[o].name, args[o].size)

\* create_volume is called only when check_volume is false
volume_create_call(o) ==
  /\ At(o, "loaded", "volume_create")
  /\ IF ~jup_check_volume(mem[o], args[o].name)
     THEN jup_create_volume(o, args[o].name, args[o].size)
     ELSE Quit(o)

volume_create_push(o) ==
  /\ At(o, "called", "volume_create")
  /\ IF Raised(res[o]) THEN Quit(o) ELSE jup_push(o, "done")

volume_create(o, excl) ==
  \/ volume_create_load(o, excl)
  \/ volume_create_call(o)
  \/ volume_create_push(o)

volume_import_load(o, excl) ==
  \E name \in VolNames :
    from_state(o, excl, "volume_import",
               [name |-> name, size |-> 0, wait |-> FALSE, timeout |-> 0])

volume_import_call(o) ==
  /\ At(o, "loaded", "volume_import")
  /\ jup_import_volume(o, args[o].name)

\* (variant: the push is made even when import_volume raised)
volume_import_push_always(o) ==
  /\ At(o, "called", "volume_import")
  /\ jup_push(o, "done")

volume_import_push(o) ==
  /\ At(o, "called", "volume_import")
  /\ IF Raised(res[o]) THEN Quit(o) ELSE jup_push(o, "done")

volume_import(o, excl) ==
  \/ volume_import_load(o, excl)
  \/ volume_import_call(o)
  \/ volume_import_push(o)

volume_resize_load(o, excl) ==
  \E name \in VolNames, size \in Sizes :
    from_state(o, excl, "volume_resize",
               [name |-> name, size |-> size, wait |-> FALSE, timeout |-> 0])

volume_resize_call(o) ==
  /\ At(o, "loaded", "volume_resize")
  /\ jup_resize_volume(o, args[o].name, args[o].size)

\* (variant: the push does not depend on the result)
volume_resize_push_always(o) ==
  /\ At(o, "called", "volume_resize")
  /\ IF Raised(res[o]) THEN Quit(o) ELSE jup_push(o, "done")

\* `if res: jup.push()`
volume_resize_push(o) ==
  /\ At(o, "called", "volume_resize")
  /\ IF Raised(res[o]) \/ res[o] = "false"
     THEN Quit(o)
     ELSE jup_push(o, "done")

volume_resize(o, excl) ==
  \/ volume_resize_load(o, excl)
  \/ volume_resize_call(o)
  \/ volume_resize_push(o)

volume_destroy_load(o, excl) ==
  \E name \in VolNames :
    from_state(o, excl, "volume_destroy",
               [name |-> name, size |-> 0, wait |-> FALSE, timeout |-> 0])

\* Confirm.ask, then destroy_volume only when confirmed
volume_destroy_call(o) ==
  /\ At(o, "loaded", "volume_destroy")
  /\ \E confirm \in BOOLEAN :
       IF confirm THEN jup_destroy_volume(o, args[o].name) ELSE Quit(o)

\* (variant: the push does not depend on what destroy_volume returned)
volume_destroy_push_always(o) ==
  /\ At(o, "called", "volume_destroy")
  /\ IF Raised(res[o]) THEN Quit(o) ELSE jup_push(o, "done")

\* `if res: jup.push()`
volume_destroy_push(o) ==
  /\ At(o, "called", "volume_destroy")
  /\ IF Raised(res[o]) \/ res[o] = "false"
     THEN Quit(o)
     ELSE jup_push(o, "done")

volume_destroy(o, excl) ==
  \/ volume_destroy_load(o, excl)
  \/ volume_destroy_call(o)
  \/ volume_destroy_push(o)

\* ------------------------------------------------ out-of-band provider
\* Changes outside the commands happen between commands; the bookkeeping of
\* the finished command is dropped with them.
Forgotten ==
  /\ \A o \in Ops : Idle(o)
  /\ pc' = [o \in Ops |-> "idle"]
  /\ cmd' = [o \in Ops |-> "none"]
  /\ args' = [o \in Ops |-> NoArgs]
  /\ mem' = [o \in Ops |-> NoState]
  /\ res' = [o \in Ops |-> "none"]
  /\ trace' = [o \in Ops |-> <<>>]
  /\ before' = [o \in Ops |-> NoState]
  /\ beaten' = [o \in Ops |-> FALSE]

\* the provider loses an instance without the controller (drift)
InstanceDeletedOutOfBand ==
  /\ Forgotten
  /\ \E i \in provInstances : provInstances' = provInstances \ {i}
  /\ UNCHANGED <<store, conf, provRecord, provVolumes>>

\* a provider volume starts being deleted, then is gone
VolumeDeletedOutOfBand ==
  /\ Forgotten
  /\ \E n \in VolNames :
       /\ provVolumes[n].tracked
       /\ provVolumes' = [provVolumes EXCEPT ![n] =
            IF provVolumes[n].status = "deleting"
            THEN NoVolume
            ELSE VolumeRecord(provVolumes[n].size, "deleting")]
  /\ UNCHANGED <<store, conf, provInstances, provRecord>>

\* the operator works from a directory that has no pointer file (another
\* machine, a fresh checkout)
PointerFileAbsent ==
  /\ Forgotten
  /\ \E o \in Ops : conf[o] # NoLocator /\ conf' = [conf EXCEPT ![o] = NoLocator]
  /\ UNCHANGED <<store, provider>>

\* ------------------------------------------------------- specifications
\* Commands one after another: the specification's single operator acting
\* on a single lab at a time.
SeqOps == {1}

Next ==
  \/ \E o \in SeqOps : init(o, TRUE)
  \/ \E o \in SeqOps : clean_state_cmd(o, TRUE)
  \/ \E o \in SeqOps : jupyter_up(o, TRUE)
  \/ \E o \in SeqOps : fetch(o, TRUE)
  \/ \E o \in SeqOps : destroy(o, TRUE)
  \/ \E o \in SeqOps : volume_create(o, TRUE)
  \/ \E o \in SeqOps : volume_import(o, TRUE)
  \/ \E o \in SeqOps : volume_resize(o, TRUE)
  \/ \E o \in SeqOps : volume_destroy(o, TRUE)
  \/ InstanceDeletedOutOfBand
  \/ VolumeDeletedOutOfBand
  \/ PointerFileAbsent

Spec == Init /\ [][Next]_vars

\* Two operators racing on one lab: each runs one command that loads the
\* descriptor and may push it, interleaved step by step.  The race starts
\* from a lab as init leaves it, as a successful `up` leaves it, or as a
\* successful `volumes create` leaves it.
RaceLabs ==
  LET fresh == JupyterState("default", "gce", "gce", "", "zone-1") IN
  { [st |-> fresh, inst |-> {}, rec |-> 0, vols |-> NoVolumes],
    [st |-> [fresh EXCEPT !.version = 1,
                          !.instance = LabInstance(1, "running")],
     inst |-> {1}, rec |-> 1, vols |-> NoVolumes],
    [st |-> [fresh EXCEPT !.version = 1,
                          !.volumes = [n \in VolNames |->
                                         VolumeRecord(10, "available")]],
     inst |-> {}, rec |-> 0,
     vols |-> [n \in VolNames |-> VolumeRecord(10, "available")]] }

InitRace ==
  /\ \E lab \in RaceLabs :
       /\ store = lab.st
       /\ provInstances = lab.inst
       /\ provRecord = lab.rec
       /\ provVolumes = lab.vols
  /\ conf = [o \in Ops |-> StateLocator]
  /\ pc = [o \in Ops |-> "idle"]
  /\ cmd = [o \in Ops |-> "none"]
  /\ args = [o \in Ops |-> NoArgs]
  /\ mem = [o \in Ops |-> NoState]
  /\ res = [o \in Ops |-> "none"]
  /\ trace = [o \in Ops |-> <<>>]
  /\ before = [o \in Ops |-> NoState]
  /\ beaten = [o \in Ops |-> FALSE]

NextRace ==
  \/ \E o \in Ops : jupyter_up(o, FALSE)
  \/ \E o \in Ops : fetch(o, FALSE)
  \/ \E o \in Ops : destroy(o, FALSE)
  \/ \E o \in Ops : volume_create(o, FALSE)
  \/ \E o \in Ops : volume_import(o, FALSE)
  \/ \E o \in Ops : volume_resize(o, FALSE)
  \/ \E o \in Ops : volume_destroy(o, FALSE)

SpecRace == InitRace /\ [][NextRace]_vars

\* ================================================================ claims
PushCmds == {"up", "fetch", "destroy", "volume_create", "volume_import",
             "volume_resize", "volume_destroy"}

\* the controller operation of the command failed: it raised, or returned false
Failed(r) == Raised(r) \/ r = "false"

\* the command is past its push decision
Finished(o) == pc[o] \in {"polling", "done"}

Has(o, e) == \E i \in DOMAIN trace[o] : trace[o][i] = e

PushInvoked(o) == Has(o, "PushOk") \/ Has(o, "StaleWrite")

\* from_state gave the command a descriptor, and its controller call is over
Called(o) ==
  /\ pc[o] \in {"called", "polling", "done"}
  /\ res[o] \notin {"none", "NoPointerFile", "StateNotFound"}

\* C1 (no partial push): when the controller operation of a command (up,
\* fetch, destroy, volumes create/import/resize/destroy) fails - it raises,
\* or ResizeVolume/DestroyVolume returns false - Push is not invoked and the
\* durable descriptor, version included, is what it was when the command
\* started.
C1_NoPartialPush ==
  \A o \in Ops :
    (cmd[o] \in PushCmds /\ pc[o] \in {"called", "polling", "done"}
       /\ Failed(res[o]))
    => /\ ~PushInvoked(o)
       /\ pc[o] # "polling"
       /\ store = before[o]

\* C1 witness: `up` ended after create_lab raised with the instance already
\* created at the provider (createRecord failed)
C1_Witness ==
  \E o \in Ops :
    /\ At(o, "done", "up")
    /\ res[o] = "ProviderError"
    /\ Has(o, "createRecord")
    /\ mem[o].instance.present
    /\ store.version = 1

\* C2 (version): the store's version never decreases; a successful Push
\* raises it by exactly one and is made from a descriptor of the store's
\* current version; a Push from any other version is rejected as a stale
\* write and leaves the stored descriptor and version unchanged; nothing but
\* a successful Push changes the stored descriptor of a lab.
C2_VersionStep ==
  /\ store'.version >= store.version
  /\ \A o \in Ops :
       /\ (~Has(o, "PushOk") /\ Has(o, "PushOk")')
            => /\ store'.version = store.version + 1
               /\ mem[o].version = store.version
       /\ (~Has(o, "StaleWrite") /\ Has(o, "StaleWrite")')
            => /\ mem[o].version # store.version
               /\ store' = store
  /\ store' # store => \E o \in Ops : ~Has(o, "PushOk") /\ Has(o, "PushOk")'

\* C2: every step keeps the version rule above
C2_VersionMonotone == [][C2_VersionStep]_vars

\* C2 witness: from the lab as Init leaves it (version 0), `up` pushed
\* (version 1), then `destroy` pushed (version 2) and the instance is cleared
C2_Witness ==
  \E o1, o2 \in Ops :
    /\ At(o1, "done", "up") /\ Has(o1, "PushOk") /\ before[o1].version = 0
    /\ At(o2, "done", "destroy") /\ Has(o2, "PushOk")
    /\ before[o2].version = 1 /\ before[o2].instance.present
    /\ store.version = 2 /\ ~store.instance.present

\* C3 (optimistic concurrency): of two operators that loaded the descriptor
\* at the same base version and both called Push, exactly one succeeded; the
\* other - the second to reach the store - failed with StaleWrite, and the
\* stored descriptor is the first writer's.
C3_OneWinner ==
  /\ \A o1, o2 \in Ops :
       (o1 # o2 /\ Finished(o1) /\ Finished(o2)
          /\ PushInvoked(o1) /\ PushInvoked(o2)
          /\ before[o1].version = before[o2].version)
       => /\ Has(o1, "PushOk") # Has(o2, "PushOk")
          /\ Has(o1, "PushOk") =>
               /\ Has(o2, "StaleWrite")
               /\ beaten[o2] /\ ~beaten[o1]
               /\ store = Pushed(mem[o1])
  /\ \A o \in Ops : (beaten[o] /\ PushInvoked(o)) => Has(o, "StaleWrite")

\* C3 witness: both operators pushed divergent descriptors from base
\* version 0; the store holds the winner's
C3_Witness ==
  \E o1, o2 \in Ops :
    /\ o1 # o2 /\ Finished(o1) /\ Finished(o2)
    /\ before[o1].version = 0 /\ before[o2].version = 0
    /\ Has(o1, "PushOk") /\ Has(o2, "StaleWrite")
    /\ cmd[o1] = "volume_create" /\ cmd[o2] = "up"
    /\ mem[o1] # mem[o2]
    /\ store = Pushed(mem[o1])

\* C4, first part (the guard): CreateLab on a descriptor whose instance is
\* present fails with AlreadyProvisioned, calls no createInstance and leaves
\* the descriptor unchanged.
C4_Guard ==
  \A o \in Ops :
    (cmd[o] = "up" /\ Called(o) /\ before[o].instance.present)
    => /\ res[o] = "AlreadyProvisioned"
       /\ ~Has(o, "createInstance")
       /\ mem[o] = before[o]
       /\ store = before[o]

\* C4 (at most one instance per lab): the guard, and hence after any
\* sequence of up/fetch/destroy commands the provider never holds two
\* instances for the lab.
C4_AtMostOneInstance ==
  /\ C4_Guard
  /\ Cardinality(provInstances) <= 1

\* C5 (destroy ordering): DestroyLab deletes the DNS record before the
\* instance and clears `instance` only after both deletions.  When the DNS
\* deletion fails, PartialDestroy is reported, deleteInstance is not called,
\* the instance stays at the provider and in the descriptor, and the destroy
\* command does not push.
C5_DestroyState ==
  \A o \in Ops :
    (cmd[o] = "destroy" /\ Called(o) /\ before[o].instance.present)
    => /\ trace[o] \in {<<"deleteRecord">>,
                        <<"deleteRecord", "deleteInstance">>,
                        <<"deleteRecord", "deleteInstance", "PushOk">>}
       /\ ~mem[o].instance.present
            <=> (res[o] = "ok" /\ Has(o, "deleteInstance"))
       /\ ~Has(o, "deleteInstance") <=> res[o] = "PartialDestroy"
       /\ res[o] = "PartialDestroy"
            => /\ mem[o] = before[o]
               /\ store = before[o]
               /\ ~PushInvoked(o)

\* C5, the provider side: a DestroyLab that reports PartialDestroy changed
\* nothing at the provider
C5_DestroyStep ==
  \A o \in Ops :
    (At(o, "loaded", "destroy") /\ res'[o] = "PartialDestroy")
    => /\ provInstances' = provInstances
       /\ provRecord' = provRecord

\* C5: the destroy ordering, in every state and over every DestroyLab step
C5_DestroyOrdering == [](C5_DestroyState) /\ [][C5_DestroyStep]_vars

\* C5 witness: on a running lab (record and instance at the provider) the
\* DNS deletion failed and the destroy command ended
C5_Witness ==
  \E o \in Ops :
    /\ At(o, "done", "destroy")
    /\ res[o] = "PartialDestroy"
    /\ before[o].instance.present
    /\ before[o].instance.id \in provInstances
    /\ provRecord = before[o].instance.id

\* C6 (Init is an idempotent-create guard): every Init on an existing
\* descriptor returns the AlreadyExists sentinel and leaves the durable
\* descriptor and its version unchanged; the init command writes the pointer
\* file only when Init returned a descriptor, and does not call Init when the
\* pointer file already exists.
C6_InitGuard ==
  \A o \in Ops :
    At(o, "done", "init")
    => /\ res[o] \in {"PointerExists", "AlreadyExists", "ok"}
       /\ res[o] = "PointerExists"
            => /\ ~Has(o, "Init")
               /\ conf[o] # NoLocator
               /\ store = before[o]
       /\ Has(o, "Init") <=> res[o] # "PointerExists"
       /\ (Has(o, "Init") /\ before[o].exists)
            => /\ res[o] = "AlreadyExists"
               /\ store = before[o]
       /\ res[o] = "AlreadyExists"
            => /\ before[o].exists
               /\ ~Has(o, "save_state")
               /\ conf[o] = NoLocator
       /\ res[o] = "ok"
            => /\ ~before[o].exists
               /\ store.exists /\ store.version = 0
               /\ Has(o, "save_state")
               /\ conf[o] = StateLocator

\* C6 witness: init ran on a lab that had been pushed once; it got the
\* sentinel
C6_Witness ==
  \E o \in Ops :
    /\ At(o, "done", "init")
    /\ res[o] = "AlreadyExists"
    /\ before[o].version = 1
    /\ store.version = 1
    /\ conf[o] = NoLocator

\* C7 (round trip): a load that directly follows a successful Push of a
\* descriptor D yields D in every field - project, providers, location,
\* dnsId, instance, volumes - with the version D's version plus one.
C7_RoundTripStep ==
  \A o \in Ops :
    (Finished(o) /\ Has(o, "PushOk") /\ pc'[o] = "loaded")
    => /\ mem'[o].exists
       /\ mem'[o].project = mem[o].project
       /\ mem'[o].compute_provider = mem[o].compute_provider
       /\ mem'[o].dns_provider = mem[o].dns_provider
       /\ mem'[o].location = mem[o].location
       /\ mem'[o].dns_id = mem[o].dns_id
       /\ mem'[o].instance = mem[o].instance
       /\ mem'[o].volumes = mem[o].volumes
       /\ mem'[o].version = mem[o].version + 1

C8_VolumeLifecycle ==
  \A o \in Ops :
    /\ \A n \in VolNames :
         /\ jup_check_volume(mem[o], n)
              <=> (mem[o].volumes[n].tracked
                     /\ mem[o].volumes[n].status # "deleting")
         /\ jup_check_volume(store, n)
              <=> (store.volumes[n].tracked
                     /\ store.volumes[n].status # "deleting")
    /\ (cmd[o] = "volume_create" /\ Called(o) /\ res[o] = "ok")
         => /\ jup_check_volume(mem[o], args[o].name)
            /\ ~before[o].volumes[args[o].name].tracked
    /\ (cmd[o] = "volume_destroy" /\ Called(o) /\ res[o] = "ok")
         => /\ ~jup_check_volume(mem[o], args[o].name)
            /\ ~mem[o].volumes[args[o].name].tracked
    /\ (cmd[o] \in {"volume_resize", "volume_destroy"} /\ Called(o)
          /\ ~before[o].volumes[args[o].name].tracked)
         => /\ res[o] = "NotFound"
            /\ trace[o] = <<>>
            /\ mem[o] = before[o]

\* C8 witness: DestroyVolume succeeded on a volume that a Fetch had found
\* in status deleting (CheckVolume was false while the map held the name)
C8_Witness ==
  \E o \in Ops :
    /\ At(o, "called", "volume_destroy")
    /\ res[o] = "ok"
    /\ before[o].volumes[args[o].name].tracked
    /\ before[o].volumes[args[o].name].status = "deleting"

\* C9 (drift reconciliation): when the descriptor holds an instance and the
\* Compute Driver reports that it no longer exists, Fetch does not fail: it
\* clears `instance` and returns; the fetch command then pushes the
\* reconciled descriptor.
C9_DriftReconciled ==
  \A o \in Ops :
    (cmd[o] = "fetch" /\ Called(o))
    => /\ Has(o, "instanceNotFound")
            <=> (res[o] = "ok" /\ before[o].instance.present
                   /\ before[o].instance.id \notin provInstances)
       /\ Has(o, "instanceNotFound")
            => /\ ~mem[o].instance.present
               /\ mem[o].version = before[o].version
       /\ (Finished(o) /\ res[o] = "ok")
            => /\ Has(o, "PushOk")
               /\ store.instance = mem[o].instance
               /\ store.volumes = mem[o].volumes
               /\ store.version = before[o].version + 1

\* C9 witness: the fetch command ended after the driver reported the
\* descriptor's instance as not found; the store has no instance
C9_Witness ==
  \E o \in Ops :
    /\ At(o, "done", "fetch")
    /\ Has(o, "instanceNotFound")
    /\ before[o].instance.present
    /\ ~store.instance.present
    /\ Has(o, "PushOk")

\* C10 (resize): ResizeVolume on a tracked volume returns false, without
\* raising, when the provider rejects the resize; then the size in the
\* descriptor is unchanged and the resize command does not push.  Only on
\* provider success is the size updated in place and the descriptor pushed.
C10_Resize ==
  \A o \in Ops :
    (cmd[o] = "volume_resize" /\ Called(o))
    => LET n == args[o].name IN
       /\ before[o].volumes[n].tracked
            => /\ res[o] \in {"ok", "false"}
               /\ Has(o, "resizeVolume")
       /\ res[o] = "false"
            => /\ mem[o] = before[o]
               /\ ~PushInvoked(o)
               /\ store = before[o]
       /\ res[o] = "ok"
            => /\ mem[o] = [before[o] EXCEPT !.volumes[n].size = args[o].size]
               /\ Finished(o)
                    => /\ Has(o, "PushOk")
                       /\ store.volumes[n].size = args[o].size
                       /\ store.version = before[o].version + 1
       /\ PushInvoked(o) => res[o] = "ok"

\* C10 witness: the provider rejected the resize of a tracked volume and the
\* resize command ended
C10_Witness ==
  \E o \in Ops :
    /\ At(o, "done", "volume_resize")
    /\ res[o] = "false"
    /\ before[o].volumes[args[o].name].tracked
    /\ args[o].size # before[o].volumes[args[o].name].size

\* the operator declined the confirmation of `volumes destroy`: the handler
\* ended right after the load, without a controller call
Declined(o) == At(o, "done", "volume_destroy") /\ mem[o].exists /\ res[o] = "none"

\* C11 (DestroyVolume): the Volume Record leaves the descriptor only when
\* the provider confirmed the deletion; when the provider destroy fails,
\* DestroyVolume returns false and the record stays in the map unchanged.
\* The volumes destroy command makes no provider call and no push when the
\* operator declines, and pushes only when DestroyVolume returned true.
C11_DestroyVolume ==
  \A o \in Ops :
    cmd[o] = "volume_destroy" =>
      LET n == args[o].name IN
      /\ Declined(o)
           => /\ trace[o] = <<>>
              /\ mem[o] = before[o]
              /\ store = before[o]
      /\ (Called(o) /\ before[o].volumes[n].tracked)
           => /\ res[o] \in {"ok", "false"}
              /\ Has(o, "deleteVolume")
      /\ (Called(o) /\ res[o] = "false")
           => /\ mem[o] = before[o]
              /\ mem[o].volumes[n].tracked
              /\ ~PushInvoked(o)
              /\ store = before[o]
      /\ (Called(o) /\ res[o] = "ok")
           => /\ mem[o] = [before[o] EXCEPT !.volumes[n] = NoVolume]
              /\ ~provVolumes[n].tracked
              /\ Finished(o)
                   => /\ Has(o, "PushOk")
                      /\ ~store.volumes[n].tracked
                      /\ store.version = before[o].version + 1
      /\ (mem[o].exists /\ mem[o].volumes # before[o].volumes)
           => res[o] = "ok"
      /\ PushInvoked(o) => res[o] = "ok"
      /\ Has(o, "deleteVolume") => res[o] \in {"ok", "false"}

\* C11 witness: the provider refused to destroy a tracked volume that it
\* still holds, and the destroy command ended
C11_Witness ==
  \E o \in Ops :
    /\ At(o, "done", "volume_destroy")
    /\ res[o] = "false"
    /\ Has(o, "deleteVolume")
    /\ before[o].volumes[args[o].name].tracked
    /\ provVolumes[args[o].name].tracked

\* CreateLab ran on a descriptor without instance (the precondition held)
CreateLabRan(o) == cmd[o] = "up" /\ Called(o) /\ ~before[o].instance.present

\* the provider calls of the command's controller operation, in order
ProviderCalls(o) ==
  SelectSeq(trace[o], LAMBDA e : e \notin {"PushOk", "StaleWrite", "http200",
                                           "ConnectionError"})

\* C12, the steps before `instance`: the volume is validated first - when
\* `up` names a volume for which CheckVolume is false no instance creation
\* is requested - and a DNS record is requested only after the instance
\* creation succeeded.
C12_Steps ==
  \A o \in Ops :
    CreateLabRan(o)
    => /\ ProviderCalls(o) \in {<<>>, <<"createInstance">>,
                                 <<"createInstance", "createRecord">>}
       /\ Has(o, "createRecord")
            => /\ mem[o].instance.present
               /\ mem[o].instance.id \in provInstances
       /\ (args[o].name # NoName /\ ~jup_check_volume(before[o], args[o].name))
            => /\ res[o] = "NotFound"
               /\ ~Has(o, "createInstance")
               /\ mem[o] = before[o]

\* C12 as stated: the steps, and `instance` is populated only after the DNS
\* record exists.
C12_InstanceAfterRecord ==
  /\ C12_Steps
  /\ \A o \in Ops :
       (CreateLabRan(o) /\ mem[o].instance.present)
       => /\ Has(o, "createRecord")
          /\ provRecord = mem[o].instance.id

\* C12, amended: the steps, and `instance` is populated as running only
\* after the DNS record exists; before that the descriptor holds either no
\* instance or the record of an unfinished creation (pending while the
\* creation is in flight at the timeout, partial when the DNS request failed).
C12_CreateLabOrder ==
  /\ C12_Steps
  /\ \A o \in Ops :
       CreateLabRan(o)
       => /\ res[o] = "ok"
               <=> (mem[o].instance.present /\ mem[o].instance.status = "running")
          /\ res[o] = "ok"
               => /\ ProviderCalls(o) = <<"createInstance", "createRecord">>
                  /\ provRecord = mem[o].instance.id
          /\ (mem[o].instance.present /\ mem[o].instance.status # "running")
               => /\ Raised(res[o])
                  /\ mem[o].instance.status = "pending"
                       <=> (res[o] = "ProvisionTimeout" /\ ~Has(o, "createRecord"))
                  /\ mem[o].instance.status = "partial"
                       <=> (res[o] = "ProviderError" /\ Has(o, "createRecord"))

\* C12 witness: `up` with a valid volume went through all the steps; the
\* record points at the new instance and `instance` is running
C12_Witness ==
  \E o \in Ops :
    /\ At(o, "called", "up")
    /\ args[o].name # NoName
    /\ ~before[o].instance.present
    /\ res[o] = "ok"
    /\ mem[o].instance.status = "running"
    /\ provRecord = mem[o].instance.id

\* CreateLab failed with ProvisionTimeout while the creation was in flight
TimedOutInFlight(o) ==
  /\ CreateLabRan(o)
  /\ res[o] = "ProvisionTimeout"
  /\ mem[o].instance.present

\* C13, inside CreateLab: the instance whose creation is in flight at the
\* timeout is recorded in the descriptor as pending and no deletion is
\* requested for it.
C13_Recorded ==
  \A o \in Ops :
    TimedOutInFlight(o)
    => /\ mem[o].instance.status = "pending"
       /\ mem[o].instance.id \in provInstances
       /\ ~Has(o, "deleteInstance")
       /\ ~Has(o, "deleteRecord")

\* C13 (a pending instance is not lost): the above, and the instance is in
\* the persisted state once the `up` command has ended, so that a later
\* Fetch or Destroy finds it and an `up` that creates an instance creates
\* the only one the provider holds.
C13_PendingNotLost ==
  /\ C13_Recorded
  /\ \A o \in Ops :
       (TimedOutInFlight(o) /\ pc[o] = "done")
       => store.instance = mem[o].instance
  /\ \A o \in Ops :
       (CreateLabRan(o) /\ Has(o, "createInstance") /\ mem[o].instance.present)
       => provInstances = {mem[o].instance.id}

\* C14 (the timeout option): for every value t of `up --timeout`, CreateLab
\* is invoked with t as its timeoutMinutes.
C14_TimeoutPassed ==
  \A o \in Ops :
    (cmd[o] = "up" /\ Called(o))
    => jupyter_up_timeout(args[o].timeout) = args[o].timeout

\* the volumes create command took its `else` branch: no controller call
AlreadyThere(o) == At(o, "done", "volume_create") /\ mem[o].exists /\ res[o] = "none"

\* C15, CreateVolume itself: on a name that is in the volume map, in any
\* status, it fails with AlreadyExists, requests no createVolume and changes
\* nothing; on provider success it inserts the one record of that name, with
\* status available; the command pushes only after such a success.
C15_CreateVolume ==
  \A o \in Ops :
    (cmd[o] = "volume_create" /\ Called(o)) =>
      LET n == args[o].name IN
      /\ before[o].volumes[n].tracked
           => /\ res[o] = "AlreadyExists"
              /\ trace[o] = <<>>
              /\ mem[o] = before[o]
              /\ store = before[o]
      /\ Has(o, "createVolume") => ~before[o].volumes[n].tracked
      /\ res[o] = "ok"
           => /\ Has(o, "createVolume")
              /\ mem[o] = [before[o] EXCEPT
                             !.volumes[n] = VolumeRecord(args[o].size, "available")]
              /\ provVolumes[n] = mem[o].volumes[n]
      /\ res[o] # "ok" => mem[o] = before[o]
      /\ PushInvoked(o) => (res[o] = "ok" /\ ~before[o].volumes[n].tracked)
      /\ (Finished(o) /\ res[o] = "ok")
           => /\ Has(o, "PushOk")
              /\ store.volumes[n] = mem[o].volumes[n]

\* C15 as stated: the above, and the volumes create command calls
\* CreateVolume only when the name is not already tracked.
C15_CalledOnlyUntracked ==
  /\ C15_CreateVolume
  /\ \A o \in Ops :
       (cmd[o] = "volume_create" /\ Called(o))
       => ~before[o].volumes[args[o].name].tracked

\* C15, amended: the above, and the volumes create command calls
\* CreateVolume exactly when CheckVolume is false for the name: when the name
\* is not tracked, and also when it is tracked with status deleting, where
\* CreateVolume fails with AlreadyExists.
C15_VolumeCreate ==
  /\ C15_CreateVolume
  /\ \A o \in Ops :
       LET n == args[o].name IN
       /\ (cmd[o] = "volume_create" /\ Called(o))
            => ~jup_check_volume(before[o], n)
       /\ AlreadyThere(o)
            => /\ jup_check_volume(before[o], n)
               /\ trace[o] = <<>>
               /\ store = before[o]

\* C15 witness: `volumes create` on a name that the descriptor tracks with
\* status deleting: CreateVolume was called and failed with AlreadyExists
C15_Witness ==
  \E o \in Ops :
    /\ At(o, "done", "volume_create")
    /\ res[o] = "AlreadyExists"
    /\ before[o].volumes[args[o].name].status = "deleting"
    /\ trace[o] = <<>>
    /\ store = before[o]

\* C16 (ImportVolume): it looks the volume up at the provider and never
\* requests createVolume.  When the provider has a volume of that name, a
\* Volume Record with status available is inserted for it and the import
\* command pushes; when it has none, ImportVolume fails, the volume map is
\* unchanged and nothing is pushed.
C16_ImportVolume ==
  \A o \in Ops :
    (cmd[o] = "volume_import" /\ Called(o)) =>
      LET n == args[o].name IN
      /\ ~Has(o, "createVolume")
      /\ ProviderCalls(o) = <<"findVolume">>
      /\ res[o] \in {"ok", "NotFoundAtProvider"}
      /\ res[o] = "ok" <=> provVolumes[n].tracked
      /\ res[o] = "ok"
           => /\ mem[o] = [before[o] EXCEPT !.volumes[n] =
                             VolumeRecord(provVolumes[n].size, "available")]
              /\ Finished(o)
                   => /\ Has(o, "PushOk")
                      /\ store.volumes = mem[o].volumes
                      /\ store.version = before[o].version + 1
      /\ res[o] = "NotFoundAtProvider"
           => /\ mem[o] = before[o]
              /\ ~PushInvoked(o)
              /\ store = before[o]

\* C16 witness: a provider volume that the descriptor did not track was
\* imported and the descriptor pushed
C16_Witness ==
  \E o \in Ops :
    /\ At(o, "done", "volume_import")
    /\ res[o] = "ok"
    /\ ~before[o].volumes[args[o].name].tracked
    /\ store.volumes[args[o].name] = VolumeRecord(provVolumes[args[o].name].size, "available")
    /\ Has(o, "PushOk")

\* C17, the state a clean command ends in: a completed clean leaves neither
\* descriptor nor pointer file; a declined one leaves the descriptor as it was
C17_CleanState ==
  \A o \in Ops :
    At(o, "done", "clean")
    => /\ res[o] \in {"NoPointerFile", "declined", "ProviderError",
                      "FileNotFoundError", "ok"}
       /\ res[o] = "ok"
            => /\ ~store.exists
               /\ conf[o] = NoLocator
               /\ trace[o] = <<"clean_state", "unlink">>
       /\ res[o] \in {"NoPointerFile", "declined"}
            => /\ trace[o] = <<>>
               /\ store = before[o]
       /\ res[o] = "ProviderError"
            => /\ trace[o] = <<"clean_state">>
               /\ store = before[o]

\* C17, the step of a clean command: descriptor and pointer file change only
\* after the confirmation, and the pointer file only after clean_state
\* succeeded
C17_CleanStep ==
  \A o \in Ops :
    cmd'[o] = "clean"
    => /\ res'[o] \in {"NoPointerFile", "declined", "ProviderError"}
            => (store' = store /\ conf' = conf)
       /\ store' # store
            => /\ store' = NoState
               /\ res'[o] \in {"ok", "FileNotFoundError"}
       /\ conf' # conf
            => /\ res'[o] = "ok"
               /\ ~store'.exists
               /\ conf[o] # NoLocator
               /\ conf' = [conf EXCEPT ![o] = NoLocator]

\* C17, the step after a completed clean: a command that loads the
\* descriptor fails (StateNotFound from FromState when a locator is given),
\* and init creates a new descriptor
C17_AfterCleanStep ==
  \A o \in Ops :
    (At(o, "done", "clean") /\ res[o] = "ok")
    => /\ cmd'[o] \in PushCmds
            => /\ res'[o] \in {"NoPointerFile", "StateNotFound"}
               /\ pc'[o] = "done"
               /\ ~mem'[o].exists
       /\ cmd'[o] = "init"
            => /\ res'[o] = "ok"
               /\ store' = JupyterState("default", "gce", "gce", "", store'.dns_id)
               /\ conf'[o] = StateLocator

\* C17 (clean): the clean command deletes descriptor and pointer file only
\* after the operator confirmed, leaves both unchanged when declined, removes
\* the pointer file only after the descriptor deletion succeeded; after a
\* completed clean a load fails with StateNotFound and init works again.
C17_Clean == [](C17_CleanState) /\ [][C17_CleanStep /\ C17_AfterCleanStep]_vars

\* C17 witness: the operator confirmed the clean of a lab that had been
\* pushed to; descriptor and pointer file are gone, the provider still holds
\* the lab's instance
C17_Witness ==
  \E o \in Ops :
    /\ At(o, "done", "clean")
    /\ res[o] = "ok"
    /\ before[o].version >= 1
    /\ before[o].instance.present
    /\ ~store.exists
    /\ conf[o] = NoLocator
    /\ provInstances # {}

\* the `up` command printed its report ("Congrats! Lab created")
Reported(o) ==
  /\ At(o, "done", "up")
  /\ Has(o, "PushOk")
  /\ ~Has(o, "ConnectionError")

\* C18, the order: the polling starts only after the new descriptor was
\* pushed; with --wait the lab is reported as created only after a request
\* answered 200; without --wait the report follows the push directly.
C18_ReportOrder ==
  \A o \in Ops :
    cmd[o] = "up"
    => /\ pc[o] = "polling"
            => /\ args[o].wait
               /\ res[o] = "ok"
               /\ trace[o] = <<"createInstance", "createRecord", "PushOk">>
               /\ store = Pushed(mem[o])
       /\ (Has(o, "http200") \/ Has(o, "ConnectionError"))
            => /\ args[o].wait
               /\ pc[o] = "done"
               /\ SubSeq(trace[o], 1, 3) = <<"createInstance", "createRecord", "PushOk">>
               /\ Len(trace[o]) = 4
       /\ (Reported(o) /\ args[o].wait)
            => trace[o][Len(trace[o])] = "http200"
       /\ (Reported(o) /\ ~args[o].wait)
            => trace[o][Len(trace[o])] = "PushOk"
       /\ (pc[o] = "done" /\ Has(o, "PushOk"))
            => /\ res[o] = "ok"
               /\ store = Pushed(mem[o])

\* C18 (up --wait): the order, and the polling loop has no exit other than
\* a 200 response: it ends only if the service answers 200.
C18_EndsOnlyOn200 ==
  /\ C18_ReportOrder
  /\ \A o \in Ops :
       (At(o, "done", "up") /\ args[o].wait /\ Has(o, "PushOk"))
       => Has(o, "http200")

\* ------------------------------------------------------------- errors.py
\* The storage errors.  A message is the sequence of the parts its f-string
\* is formatted from.
Buckets == {"b1", "b2", "b3"}     \* values of the parameter bucket
Keys == {"k1", "k2"}              \* values of the parameter key
NoKey == ""

\* what evaluating a name yields that is neither a local of __init__ nor a
\* global of errors.py nor a builtin
NameError(name) ==
  [class |-> "NameError", msg |-> <<"name '", name, "' is not defined">>]

\* msg = f"Key {key} not found in bucket {bucket}"
BlobNotFound(bucket, key) ==
  [class |-> "BlobNotFound",
   msg |-> <<"Key ", key, " not found in bucket ", bucket>>]

\* msg = f"{Bucket} not found": the parameter is `bucket`; `Bucket` is
\* looked up among the locals and is not there
BucketNotFound(bucket) ==
  LET locals == [bucket |-> bucket] IN
  IF "Bucket" \in DOMAIN locals
  THEN [class |-> "BucketNotFound", msg |-> <<locals["Bucket"], " not found">>]
  ELSE NameError("Bucket")

\* msg = f"Not permissions for {bucket}"
BucketForbidden(bucket) ==
  [class |-> "BucketForbidden", msg |-> <<"Not permissions for ", bucket>>]

\* a caller o constructs an error of class c from bucket and key; res[o] is
\* the exception that comes out of the constructor call
Constructed(o, c, bucket, key, e) ==
  /\ pc' = [pc EXCEPT ![o] = "done"]
  /\ cmd' = [cmd EXCEPT ![o] = c]
  /\ args' = [args EXCEPT ![o] = [bucket |-> bucket, key |-> key]]
  /\ res' = [res EXCEPT ![o] = e]
  /\ UNCHANGED <<store, conf, provider, mem, trace, before, beaten>>

raise_BlobNotFound(o) ==
  \E bucket \in Buckets, key \in Keys :
    Constructed(o, "BlobNotFound", bucket, key, BlobNotFound(bucket, key))

raise_BucketNotFound(o) ==
  \E bucket \in Buckets :
    Constructed(o, "BucketNotFound", bucket, NoKey, BucketNotFound(bucket))

raise_BucketForbidden(o) ==
  \E bucket \in Buckets :
    Constructed(o, "BucketForbidden", bucket, NoKey, BucketForbidden(bucket))

NextErrors ==
  \/ \E o \in Ops : raise_BlobNotFound(o)
  \/ \E o \in Ops : raise_BucketNotFound(o)
  \/ \E o \in Ops : raise_BucketForbidden(o)

SpecErrors == Init /\ [][NextErrors]_vars

\* the message of exception e names x
Names(e, x) == \E i \in DOMAIN e.msg : e.msg[i] = x

\* C19 (storage errors): constructing BlobNotFound(bucket, key),
\* BucketNotFound(bucket) or BucketForbidden(bucket) yields an exception of
\* that same class whose message names the given bucket; the construction
\* raises no other error.
C19_ErrorsConstruct ==
  \A o \in Ops :
    pc[o] = "done"
    => /\ res[o].class = cmd[o]
       /\ Names(res[o], args[o].bucket)

\* C19, the two classes whose message is formatted from the parameters:
\* BlobNotFound and BucketForbidden are constructed as stated
C19_OtherClasses ==
  \A o \in Ops :
    (pc[o] = "done" /\ cmd[o] # "BucketNotFound")
    => /\ res[o].class = cmd[o]
       /\ Names(res[o], args[o].bucket)

====
